---------------------------- MODULE Spec2Model ----------------------------
(***************************************************************************)
(* Model of the worker pool, the per-request input handler and the close   *)
(* handler of the zocr node (src/zocr.js).                                 *)
(*                                                                         *)
(* JavaScript runs the handler of each message as an async function on one *)
(* thread: code between two awaits runs without interruption, and at an    *)
(* await any other in-flight handler may run.  Every action below is one   *)
(* such uninterrupted segment of one request, from the resumption of an    *)
(* await to the next await whose promise is not already settled by pool    *)
(* code alone.  Hops through already-resolved promises that touch no       *)
(* shared state (the return of an async function to its awaiting caller)   *)
(* are folded into the segment that precedes them.                         *)
(*                                                                         *)
(* Numbers that come from the message (cfg.poolSize) may be fractions, so  *)
(* sizes are kept in HALVES: the value 5 stands for 2.5, and desiredSize   *)
(* holds twice the value of the JavaScript variable.                       *)
(***************************************************************************)
EXTENDS Integers, Sequences, FiniteSets, TLC

\* ----------------------------------------------------------------- bounds
\* Messages delivered to the node over one run.
MaxRequests == 3
\* Engine instances createWorker() hands out over one run.
MaxHandles == 7
\* Largest cfg.poolSize a message carries when handlers run one at a time.
MaxSeqSize == 5

\* ------------------------------------------------------ program constants
DefaultTimeoutMs == 30000
MinPoolSize == 1
MaxPoolSize == 4

VARIABLES
    pool,         \* the `pool` array: sequence of handle ids
    desiredSize,  \* the `desiredSize` variable, in halves
    handles,      \* every handle createOne() has built, by id
    req,          \* per request slot: position and locals of the handler
    started,      \* messages delivered so far
    engine,       \* what a worker of the installed tesseract.js exposes
    closer        \* the close handler: its position in pool.destroy()

vars == <<pool, desiredSize, handles, req, started, engine, closer>>

\* Two handlers may be in flight at a time; a slot is taken by the next
\* message once its handler has called done().
Reqs == {1, 2}
Null == "null"
Langs == {"eng", "chi_sim"}

\* Values of cfg.poolSize: a number (in halves) or something Number() turns
\* into NaN.
Num(v) == [k |-> "num", v |-> v]
NaN == [k |-> "nan"]
SizeInputs(max) == {NaN} \cup {Num(v) : v \in (-2)..(2 * max + 1)}
\* When handlers interleave their messages ask for a pool of one or of two;
\* every other value is met when handlers run one at a time (SeqSpec).
WholeSizes == {Num(2 * MinPoolSize), Num(2 * (MinPoolSize + 1))}

Payloads == {"buffer", "wireBuffer", "dataUrl", "httpUrl", "path", "other"}

Max(a, b) == IF a >= b THEN a ELSE b
Min(a, b) == IF a <= b THEN a ELSE b
Front(s) == SubSeq(s, 1, Len(s) - 1)
Range(f) == {f[i] : i \in DOMAIN f}


\* ------------------------------------------------------------ pure helpers
\* Number(size) || 1                                       (zocr.js line 92)
NumberOrOne(size) == IF size.k = "nan" \/ size.v = 0 THEN 2 ELSE size.v

\* Math.max(1, Math.min(4, Number(size) || 1)), in halves  (zocr.js line 92)
Clamp(size) == Max(2 * MinPoolSize, Min(2 * MaxPoolSize, NumberOrOne(size)))

\* TooLarge off by one: pool.length > desiredSize + 1.
TooLargeByTwo(p, d) == 2 * Len(p) > d + 2

\* pool.length < desiredSize and pool.length > desiredSize (lines 93, 94)
TooSmall(p, d) == 2 * Len(p) < d
TooLarge(p, d) == 2 * Len(p) > d

\* createOne(): a fresh handle around a new worker        (lines 77..89)
\* `terminated`, `loads` and `initialized` belong to the worker: how often
\* terminate() and loadLanguage() have been invoked on it, and the language
\* of the last initialize() that was fulfilled on it.  A tesseract.js worker
\* always has a terminate method, so the typeof guards of lines 96 and 151
\* are true.
NewHandle(w) ==
    [lang |-> Null, busy |-> FALSE,
     api |-> [hasLangInit |-> w.loadLanguage /\ w.initialize],
     terminated |-> 0, loads |-> 0, initialized |-> Null]

\* FirstIdle that takes the first handle whether busy or not.
FirstAny(p, hs) == IF Len(p) = 0 THEN 0 ELSE p[1]

\* The first handle of the pool that is not busy, as the for..of loops of
\* acquire find it; 0 when every handle is busy          (lines 118, 128)
FirstIdle(p, hs) ==
    LET idle == {i \in 1..Len(p) : ~hs[p[i]].busy}
    IN  IF idle = {} THEN 0 ELSE p[CHOOSE i \in idle : \A j \in idle : i <= j]

\* release that leaves the busy flag as it is.
ReleaseNothing(hs, item) == hs

\* release(item)                                          (line 147)
Release(hs, item) == IF item # 0 THEN [hs EXCEPT ![item].busy = FALSE] ELSE hs

\* Pop that takes the first element off (shift) while the last is the one
\* handed back.
Shift(p) == Tail(p)

\* pool.pop(): the pool without its last element, and that element
\*                                                        (line 95)
Pop(p) == Front(p)
Popped(p) == p[Len(p)]

\* Values of cfg.rectangle: a falsy value (null by default), a truthy value
\* that is no object of fields, or an object whose four fields are each
\* missing, a string, or a number (in halves: Num(3) is 1.5, Num(4) is 2).
Undefined == [k |-> "undefined"]
String == [k |-> "string"]
FieldInputs == {Undefined, String, Num(0), Num(3), Num(4)}
RectFields == {"left", "top", "width", "height"}
NoRectangle == [k |-> "null"]
Rectangles ==
    {NoRectangle, [k |-> "scalar"]}
        \cup {[k |-> "object", left |-> l, top |-> t, width |-> w,
               height |-> h] :
                  l \in FieldInputs, t \in FieldInputs,
                  w \in FieldInputs, h \in FieldInputs}

\* rect.left, rect.top, ...: reading a field of a value that has none
\* gives undefined                                  (lines 204..207)
Field(rect, f) == IF rect.k = "object" THEN rect[f] ELSE Undefined

\* Number.isInteger(x)                               (lines 204..207)
IsInteger(x) == x.k = "num" /\ x.v % 2 = 0

\* RecognizeOptions that does not look at rect.height.
RecognizeOptionsNoHeight(rect) ==
    IF /\ rect.k # "null"
       /\ IsInteger(Field(rect, "left"))
       /\ IsInteger(Field(rect, "top"))
       /\ IsInteger(Field(rect, "width"))
    THEN [k |-> "rectangle", left |-> rect.left, top |-> rect.top,
          width |-> rect.width, height |-> rect.height]
    ELSE [k |-> "empty"]

\* recognizeOptions as lines 200..215 build it: {} or { rectangle: {...} }
RecognizeOptions(rect) ==
    IF /\ rect.k # "null"
       /\ IsInteger(Field(rect, "left"))
       /\ IsInteger(Field(rect, "top"))
       /\ IsInteger(Field(rect, "width"))
       /\ IsInteger(Field(rect, "height"))
    THEN [k |-> "rectangle", left |-> rect.left, top |-> rect.top,
          width |-> rect.width, height |-> rect.height]
    ELSE [k |-> "empty"]

\* recognizeOptions before the handler has built it.
NoOptions == [k |-> "none"]

\* A request slot nobody uses.  `swallowed` tells whether the empty catch of
\* line 97 has taken an error during the ensureSize call of the request.
IdleReq ==
    [pc |-> "idle", payload |-> "", lang |-> Null, size |-> NaN,
     swallowed |-> FALSE, item |-> 0, path |-> "", params |-> "",
     rect |-> NoRectangle, options |-> NoOptions, err |-> ""]

\* The catch block of the handler: status, node.error, done(err).  It does
\* not touch the pool.  `kind` names the error by the step that raised it;
\* `item` stays as it was, so that the handle the request had marked busy
\* can still be named                                     (lines 235..239)
Fail(rq, kind) ==
    [rq EXCEPT !.pc = "failed", !.err = kind, !.lang = Null, !.size = NaN,
               !.swallowed = FALSE, !.path = "", !.params = "",
               !.rect = NoRectangle, !.options = NoOptions, !.payload = ""]

\* ------------------------------------------- segments of the input handler
\* Each operator below is the straight-line code that follows a resumption;
\* it yields the pool, the handles and the request as that code leaves them.

\* `caps` is what the typeof tests of the handler find when they are made:
\* worker.setParameters, worker.recognize and tesseract.recognize being
\* functions or not                                  (lines 195, 219, 222)
Caps ==
    [setParameters : BOOLEAN, workerRecognize : BOOLEAN,
     moduleRecognize : BOOLEAN]

\* The recognition options, doRecognize and the call of withTimeout
\*                                                        (lines 199..228)
DoRecognize(hs, rq, caps) ==
    IF caps.workerRecognize \/ caps.moduleRecognize
    THEN [handles |-> hs,
          rq |-> [rq EXCEPT !.pc = "recognize",
                            !.options = RecognizeOptions(rq.rect)]]
    ELSE [handles |-> hs, rq |-> Fail(rq, "CapabilityMissing")]

\* AfterAcquire that starts recognition without awaiting setParameters.
AfterAcquireNoAwait(hs, rq, caps) ==
    DoRecognize(hs, [rq EXCEPT !.path = "",
                               !.params = IF caps.setParameters
                                          THEN "called" ELSE ""], caps)

\* After acquire has returned: setParameters if the worker has it, else
\* straight to recognition.  `params` tells whether setParameters has been
\* called for this request and has returned              (lines 192..228)
AfterAcquire(hs, rq, caps) ==
    LET r1 == [rq EXCEPT !.path = ""]
    IN  IF caps.setParameters
        THEN [handles |-> hs,
              rq |-> [r1 EXCEPT !.pc = "setParameters", !.params = "called"]]
        ELSE DoRecognize(hs, r1, caps)

\* initLangIfNeeded without the test of line 104: it loads the language
\* whenever the worker can.
InitLangAlways(hs, rq, caps) ==
    LET h == rq.item
    IN  IF hs[h].api.hasLangInit
        THEN [handles |-> [hs EXCEPT ![h].loads = @ + 1],
              rq |-> [rq EXCEPT !.pc = "loadLanguage"]]
        ELSE AfterAcquire(
                 [hs EXCEPT ![h].lang = IF @ # Null THEN @ ELSE rq.lang],
                 rq, caps)

\* initLangIfNeeded that records the language asked for on a worker that
\* cannot switch, whatever the handle recorded before.
InitLangOverwrite(hs, rq, caps) ==
    LET h == rq.item
    IN  IF hs[h].lang = rq.lang THEN AfterAcquire(hs, rq, caps)
        ELSE IF hs[h].api.hasLangInit
        THEN [handles |-> [hs EXCEPT ![h].loads = @ + 1],
              rq |-> [rq EXCEPT !.pc = "loadLanguage"]]
        ELSE AfterAcquire([hs EXCEPT ![h].lang = rq.lang], rq, caps)

\* initLangIfNeeded(item, lang) up to its first await     (lines 103..114)
InitLangIfNeeded(hs, rq, caps) ==
    LET h == rq.item
    IN  IF hs[h].lang = rq.lang THEN AfterAcquire(hs, rq, caps)
        ELSE IF hs[h].api.hasLangInit
        THEN [handles |-> [hs EXCEPT ![h].loads = @ + 1],
              rq |-> [rq EXCEPT !.pc = "loadLanguage"]]
        ELSE AfterAcquire(
                 [hs EXCEPT ![h].lang = IF @ # Null THEN @ ELSE rq.lang],
                 rq, caps)

\* One scan of the pool for an idle handle: the loop at the head of acquire
\* (path "immediate") and the body of check (path "waiting")
\*                                                        (lines 116..145)
Scan(p, hs, rq, path, caps) ==
    LET h == FirstIdle(p, hs)
    IN  IF h = 0
        THEN [handles |-> hs, rq |-> [rq EXCEPT !.pc = "waiting"]]
        ELSE InitLangIfNeeded([hs EXCEPT ![h].busy = TRUE],
                              [rq EXCEPT !.item = h, !.path = path], caps)

\* The second loop of ensureSize, from its condition      (lines 94..100)
ShrinkLoop(p, hs, d, rq) ==
    IF TooLarge(p, d)
    THEN [pool |-> Pop(p),
          handles |-> [hs EXCEPT ![Popped(p)].terminated = @ + 1],
          rq |-> [rq EXCEPT !.pc = "terminate"]]
    ELSE [pool |-> p, handles |-> hs, rq |-> [rq EXCEPT !.pc = "ensured"]]

\* The first loop of ensureSize, from its condition       (lines 93..100)
GrowLoop(p, hs, d, rq) ==
    IF TooSmall(p, d)
    THEN [pool |-> p, handles |-> hs, rq |-> [rq EXCEPT !.pc = "createOne"]]
    ELSE ShrinkLoop(p, hs, d, rq)

\* The loop of destroy() from the step of its iterator that looks at index
\* i: a handle there has terminate invoked on it and the loop awaits; past
\* the end of the array the loop is over and pool.length = 0 empties the
\* pool.  `atCall` keeps the handles the pool held when destroy was called,
\* and `swallowed` tells whether the empty catch of line 151 has taken an
\* error
\*                                                        (lines 149..154)
DestroyLoop(p, hs, i, c) ==
    IF i <= Len(p)
    THEN [pool |-> p,
          handles |-> [hs EXCEPT ![p[i]].terminated = @ + 1],
          closer |-> [c EXCEPT !.pc = "terminating", !.i = i]]
    ELSE [pool |-> <<>>, handles |-> hs,
          closer |-> [c EXCEPT !.pc = "closed", !.i = 0]]

\* ------------------------------------------------------------------ state
\* The node before its close event.
Open == [pc |-> "open", i |-> 0, atCall |-> {}, swallowed |-> FALSE]

\* Some builds of tesseract.js give their workers loadLanguage and
\* initialize, others give them neither.
Engines == {[loadLanguage |-> b, initialize |-> b] : b \in BOOLEAN}

Init ==
    /\ pool = <<>>
    /\ desiredSize = 2
    /\ handles = <<>>
    /\ req = [r \in Reqs |-> IdleReq]
    /\ started = 0
    /\ engine \in Engines
    /\ closer = Open

\* ---------------------------------------------------------------- actions
\* Slot r is free for the handler of the next message.
CanStart(r) ==
    /\ req[r].pc \in {"idle", "done", "failed"}
    /\ started < MaxRequests

\* A message arrives, with its payload and its zocr.rectangle: the handler
\* calls normalizePayloadToBuffer and awaits          (lines 165..167)
Start(r, payload, rect) ==
    /\ CanStart(r)
    /\ started' = started + 1
    /\ req' = [req EXCEPT ![r] = [IdleReq EXCEPT !.pc = "normalize",
                                                 !.payload = payload,
                                                 !.rect = rect]]
    /\ UNCHANGED <<pool, desiredSize, handles, engine, closer>>

\* A handler that sizes the pool for the default poolSize before it
\* normalises the payload.
NormalizeFailAfterResize(r) ==
    /\ req[r].pc = "normalize"
    /\ req[r].payload \in {"httpUrl", "path", "other"}
    /\ req' = [req EXCEPT ![r] = Fail(@, IF req[r].payload = "other"
                                          THEN "UnsupportedPayload"
                                          ELSE "SourceUnavailable")]
    /\ desiredSize' = 2 * MinPoolSize
    /\ UNCHANGED <<pool, handles, started, engine, closer>>

\* normalizePayloadToBuffer throws: a download that fails, a file that is
\* missing or unreadable, a payload of no supported shape (lines 39..55)
NormalizeFail(r) ==
    /\ req[r].pc = "normalize"
    /\ req[r].payload \in {"httpUrl", "path", "other"}
    /\ req' = [req EXCEPT ![r] = Fail(@, IF req[r].payload = "other"
                                          THEN "UnsupportedPayload"
                                          ELSE "SourceUnavailable")]
    /\ UNCHANGED <<pool, desiredSize, handles, started, engine, closer>>

\* The buffer is there: the handler merges the configuration and calls
\* pool.ensureSize(cfg.poolSize)                 (lines 167..188, 91..100)
NormalizeOk(r, lang, size) ==
    /\ req[r].pc = "normalize"
    /\ req[r].payload # "other"
    /\ LET d  == Clamp(size)
           rq == [req[r] EXCEPT !.payload = "", !.lang = lang, !.size = size]
           n  == GrowLoop(pool, handles, d, rq)
       IN  /\ desiredSize' = d
           /\ pool' = n.pool
           /\ handles' = n.handles
           /\ req' = [req EXCEPT ![r] = n.rq]
    /\ UNCHANGED <<started, engine, closer>>

\* createOne() has delivered a handle: push it and go round the loops
\*                                                        (lines 77..100)
CreateOk(r) ==
    /\ req[r].pc = "createOne"
    /\ Len(handles) < MaxHandles
    /\ LET h  == Len(handles) + 1
           hs == Append(handles, NewHandle(engine))
           n  == GrowLoop(Append(pool, h), hs, desiredSize, req[r])
       IN  /\ pool' = n.pool
           /\ handles' = n.handles
           /\ req' = [req EXCEPT ![r] = n.rq]
    /\ UNCHANGED <<desiredSize, started, engine, closer>>

\* createWorker() throws: ensureSize rejects, the handler catches
\*                                               (lines 79..80, 235..239)
CreateFail(r) ==
    /\ req[r].pc = "createOne"
    /\ req' = [req EXCEPT ![r] = Fail(@, "CreateFailure")]
    /\ UNCHANGED <<pool, desiredSize, handles, started, engine, closer>>

\* worker.terminate() is fulfilled: back to the condition of the second
\* loop                                                   (lines 94..100)
TerminateDone(r) ==
    /\ req[r].pc = "terminate"
    /\ LET n == ShrinkLoop(pool, handles, desiredSize, req[r])
       IN  /\ pool' = n.pool
           /\ handles' = n.handles
           /\ req' = [req EXCEPT ![r] = n.rq]
    /\ UNCHANGED <<desiredSize, started, engine, closer>>

\* TerminateFail without the try/catch of line 97: the rejection leaves
\* ensureSize and reaches the catch block of the handler.
TerminateFailSurfaces(r) ==
    /\ req[r].pc = "terminate"
    /\ req' = [req EXCEPT ![r] = Fail(@, "TerminateFailure")]
    /\ UNCHANGED <<pool, desiredSize, handles, started, engine, closer>>

\* worker.terminate() throws or is rejected: the empty catch of line 97
\* takes the error, and the second loop goes on            (lines 94..100)
TerminateFail(r) ==
    /\ req[r].pc = "terminate"
    /\ LET n == ShrinkLoop(pool, handles, desiredSize,
                           [req[r] EXCEPT !.swallowed = TRUE])
       IN  /\ pool' = n.pool
           /\ handles' = n.handles
           /\ req' = [req EXCEPT ![r] = n.rq]
    /\ UNCHANGED <<desiredSize, started, engine, closer>>

\* ensureSize has returned: the handler calls pool.acquire(lang).  When no
\* handle is idle, check() runs once at once, finds the same, and arms the
\* 20 ms timer                                    (lines 190..192, 116..145)
Acquire(r, caps) ==
    /\ req[r].pc = "ensured"
    /\ LET n == Scan(pool, handles,
                     [req[r] EXCEPT !.size = NaN, !.swallowed = FALSE],
                     "immediate", caps)
       IN  /\ handles' = n.handles
           /\ req' = [req EXCEPT ![r] = n.rq]
    /\ UNCHANGED <<pool, desiredSize, started, engine, closer>>

\* Check that arms the timer again without looking at the pool.
CheckRearms(r, caps) ==
    /\ req[r].pc = "waiting"
    /\ UNCHANGED vars

\* The 20 ms timer fires: check() scans again            (lines 127..142)
Check(r, caps) ==
    /\ req[r].pc = "waiting"
    /\ LET n == Scan(pool, handles, req[r], "waiting", caps)
       IN  /\ handles' = n.handles
           /\ req' = [req EXCEPT ![r] = n.rq]
    /\ UNCHANGED <<pool, desiredSize, started, engine, closer>>

\* worker.loadLanguage(lang) fulfilled: call worker.initialize(lang)
\*                                                        (lines 106..107)
LoadLanguageOk(r) ==
    /\ req[r].pc = "loadLanguage"
    /\ req' = [req EXCEPT ![r].pc = "initialize"]
    /\ UNCHANGED <<pool, desiredSize, handles, started, engine, closer>>

\* InitLangFail that records the language asked for although its
\* initialisation has failed.
InitLangFailRecords(r) ==
    /\ req[r].pc \in {"loadLanguage", "initialize"}
    /\ handles' = [handles EXCEPT ![req[r].item].lang = req[r].lang,
                                  ![req[r].item].busy =
                                      IF req[r].path = "waiting"
                                      THEN FALSE ELSE @]
    /\ req' = [req EXCEPT ![r] = Fail(@, "LanguageFailure")]
    /\ UNCHANGED <<pool, desiredSize, started, engine, closer>>

\* loadLanguage or initialize rejected.  On the waiting path check() clears
\* the busy flag and rejects; on the immediate path nothing catches the
\* error inside acquire                   (lines 121, 131..137, 235..239)
InitLangFail(r) ==
    /\ req[r].pc \in {"loadLanguage", "initialize"}
    /\ handles' = IF req[r].path = "waiting"
                  THEN [handles EXCEPT ![req[r].item].busy = FALSE]
                  ELSE handles
    /\ req' = [req EXCEPT ![r] = Fail(@, "LanguageFailure")]
    /\ UNCHANGED <<pool, desiredSize, started, engine, closer>>

\* worker.initialize(lang) fulfilled: record the language, return the
\* handle to the handler                          (lines 107..108, 192..228)
InitializeOk(r, caps) ==
    /\ req[r].pc = "initialize"
    /\ LET hs == [handles EXCEPT ![req[r].item].initialized = req[r].lang,
                                 ![req[r].item].lang = req[r].lang]
           n  == AfterAcquire(hs, req[r], caps)
       IN  /\ handles' = n.handles
           /\ req' = [req EXCEPT ![r] = n.rq]
    /\ UNCHANGED <<pool, desiredSize, started, engine, closer>>

\* worker.setParameters fulfilled: build the options, start recognition
\*                                                        (lines 196..228)
SetParametersOk(r, caps) ==
    /\ req[r].pc = "setParameters"
    /\ LET n == DoRecognize(handles, [req[r] EXCEPT !.params = "applied"],
                            caps)
       IN  /\ handles' = n.handles
           /\ req' = [req EXCEPT ![r] = n.rq]
    /\ UNCHANGED <<pool, desiredSize, started, engine, closer>>

\* worker.setParameters rejected                  (lines 196, 235..239)
SetParametersFail(r) ==
    /\ req[r].pc = "setParameters"
    /\ req' = [req EXCEPT ![r] = Fail(@, "ParameterFailure")]
    /\ UNCHANGED <<pool, desiredSize, handles, started, engine, closer>>

\* Recognition fulfilled before the timer: send the result, release the
\* handle, done()                                         (lines 228..234)
RecognizeOk(r) ==
    /\ req[r].pc = "recognize"
    /\ handles' = Release(handles, req[r].item)
    /\ req' = [req EXCEPT ![r] = [Fail(@, "") EXCEPT !.pc = "done"]]
    /\ UNCHANGED <<pool, desiredSize, started, engine, closer>>

\* Recognition rejected before the timer          (lines 228, 235..239)
RecognizeFail(r) ==
    /\ req[r].pc = "recognize"
    /\ req' = [req EXCEPT ![r] = Fail(@, "EngineFailure")]
    /\ UNCHANGED <<pool, desiredSize, handles, started, engine, closer>>

\* withTimeout(promise, ms) arms a timer unless !ms || ms <= 0
\*                                                        (line 58)
Armed(ms) == ~(ms = 0 \/ ms <= 0)

\* The values of cfg.timeoutMs.
TimeoutInputs == {-1, 0, DefaultTimeoutMs}

\* The timer of withTimeout fires first: the race rejects with the timeout
\* error; the recognition itself goes on in the worker, unobserved
\*                                              (lines 57..69, 228, 235..239)
Timeout(r, timeoutMs) ==
    /\ req[r].pc = "recognize"
    /\ Armed(timeoutMs)
    /\ req' = [req EXCEPT ![r] = Fail(@, "Timeout")]
    /\ UNCHANGED <<pool, desiredSize, handles, started, engine, closer>>

\* Two handlers in flight.  Their messages leave zocr.rectangle at its
\* default; every other rectangle is met when handlers run one at a time
\* (RectSpec).
Next ==
    \/ \E r \in Reqs, payload \in Payloads : Start(r, payload, NoRectangle)
    \/ \E r \in Reqs : NormalizeFail(r)
    \/ \E r \in Reqs, lang \in Langs, size \in WholeSizes :
          NormalizeOk(r, lang, size)
    \/ \E r \in Reqs : CreateOk(r)
    \/ \E r \in Reqs : CreateFail(r)
    \/ \E r \in Reqs : TerminateDone(r)
    \/ \E r \in Reqs : TerminateFail(r)
    \/ \E r \in Reqs, caps \in Caps : Acquire(r, caps)
    \/ \E r \in Reqs, caps \in Caps : Check(r, caps)
    \/ \E r \in Reqs : LoadLanguageOk(r)
    \/ \E r \in Reqs : InitLangFail(r)
    \/ \E r \in Reqs, caps \in Caps : InitializeOk(r, caps)
    \/ \E r \in Reqs, caps \in Caps : SetParametersOk(r, caps)
    \/ \E r \in Reqs : SetParametersFail(r)
    \/ \E r \in Reqs : RecognizeOk(r)
    \/ \E r \in Reqs : RecognizeFail(r)
    \/ \E r \in Reqs, timeoutMs \in TimeoutInputs : Timeout(r, timeoutMs)

Spec == Init /\ [][Next]_vars

\* One handler at a time: the only slot is slot 1, and its messages carry
\* any cfg.poolSize, whole or not, numeric or not.
NextSeq ==
    \/ \E payload \in Payloads : Start(1, payload, NoRectangle)
    \/ NormalizeFail(1)
    \/ \E lang \in Langs, size \in SizeInputs(MaxSeqSize) :
          NormalizeOk(1, lang, size)
    \/ CreateOk(1)
    \/ CreateFail(1)
    \/ TerminateDone(1)
    \/ TerminateFail(1)
    \/ \E caps \in Caps : Acquire(1, caps)
    \/ \E caps \in Caps : Check(1, caps)
    \/ LoadLanguageOk(1)
    \/ InitLangFail(1)
    \/ \E caps \in Caps : InitializeOk(1, caps)
    \/ \E caps \in Caps : SetParametersOk(1, caps)
    \/ SetParametersFail(1)
    \/ RecognizeOk(1)
    \/ RecognizeFail(1)
    \/ \E timeoutMs \in TimeoutInputs : Timeout(1, timeoutMs)

SeqSpec == Init /\ [][NextSeq]_vars


\* Every step of the handler of slot r but the arrival of its message.
Step(r) ==
    \/ NormalizeFail(r)
    \/ \E lang \in Langs, size \in WholeSizes : NormalizeOk(r, lang, size)
    \/ CreateOk(r)
    \/ CreateFail(r)
    \/ TerminateDone(r)
    \/ TerminateFail(r)
    \/ \E caps \in Caps : Acquire(r, caps)
    \/ \E caps \in Caps : Check(r, caps)
    \/ LoadLanguageOk(r)
    \/ InitLangFail(r)
    \/ \E caps \in Caps : InitializeOk(r, caps)
    \/ \E caps \in Caps : SetParametersOk(r, caps)
    \/ SetParametersFail(r)
    \/ RecognizeOk(r)
    \/ RecognizeFail(r)
    \/ \E timeoutMs \in TimeoutInputs : Timeout(r, timeoutMs)

\* The event loop runs every continuation that is ready and fires every
\* timer that is due, and every call into the engine settles: a handler
\* that can take a step takes one.  No message has to arrive.
FairSpec == Spec /\ \A r \in Reqs : WF_vars(Step(r))

\* Every step of the handler of slot r on a node whose messages all ask for
\* the default pool of one.
StepOne(r) ==
    \/ NormalizeFail(r)
    \/ \E lang \in Langs : NormalizeOk(r, lang, Num(2 * MinPoolSize))
    \/ CreateOk(r)
    \/ CreateFail(r)
    \/ TerminateDone(r)
    \/ TerminateFail(r)
    \/ \E caps \in Caps : Acquire(r, caps)
    \/ \E caps \in Caps : Check(r, caps)
    \/ LoadLanguageOk(r)
    \/ InitLangFail(r)
    \/ \E caps \in Caps : InitializeOk(r, caps)
    \/ \E caps \in Caps : SetParametersOk(r, caps)
    \/ SetParametersFail(r)
    \/ RecognizeOk(r)
    \/ RecognizeFail(r)
    \/ \E timeoutMs \in TimeoutInputs : Timeout(r, timeoutMs)

NextOne ==
    \/ \E r \in Reqs, payload \in Payloads : Start(r, payload, NoRectangle)
    \/ \E r \in Reqs : StepOne(r)

\* The same event loop as FairSpec, every engine call free to fail, on a
\* pool of one.
FairOneSpec ==
    Init /\ [][NextOne]_vars /\ \A r \in Reqs : WF_vars(StepOne(r))

\* A working installation: the image is there, a worker with setParameters
\* and recognize, no call into the engine rejects, no timer of withTimeout
\* fires; every message asks for a pool of one.
Working == [setParameters |-> TRUE, workerRecognize |-> TRUE,
            moduleRecognize |-> TRUE]

StepWorking(r) ==
    \/ \E lang \in Langs : NormalizeOk(r, lang, Num(2 * MinPoolSize))
    \/ CreateOk(r)
    \/ TerminateDone(r)
    \/ Acquire(r, Working)
    \/ Check(r, Working)
    \/ LoadLanguageOk(r)
    \/ InitializeOk(r, Working)
    \/ SetParametersOk(r, Working)
    \/ RecognizeOk(r)

NextWorking ==
    \/ \E r \in Reqs, payload \in Payloads \ {"other"} :
          Start(r, payload, NoRectangle)
    \/ \E r \in Reqs : StepWorking(r)

WorkingSpec ==
    Init /\ [][NextWorking]_vars /\ \A r \in Reqs : WF_vars(StepWorking(r))

\* One handler at a time on a pool of the default size, its messages
\* carrying any zocr.rectangle.
NextRect ==
    \/ /\ CanStart(1)
       /\ \E payload \in Payloads, rect \in Rectangles :
              Start(1, payload, rect)
    \/ NormalizeFail(1)
    \/ \E lang \in Langs : NormalizeOk(1, lang, Num(2 * MinPoolSize))
    \/ CreateOk(1)
    \/ CreateFail(1)
    \/ \E caps \in Caps : Acquire(1, caps)
    \/ \E caps \in Caps : Check(1, caps)
    \/ LoadLanguageOk(1)
    \/ InitLangFail(1)
    \/ \E caps \in Caps : InitializeOk(1, caps)
    \/ \E caps \in Caps : SetParametersOk(1, caps)
    \/ SetParametersFail(1)
    \/ RecognizeOk(1)
    \/ RecognizeFail(1)
    \/ \E timeoutMs \in TimeoutInputs : Timeout(1, timeoutMs)

RectSpec == Init /\ [][NextRect]_vars

\* The close event of the node: the handler calls pool.destroy(), which
\* starts its loop over the pool                  (lines 242..244, 149..154)
Close ==
    /\ closer.pc = "open"
    /\ LET n == DestroyLoop(pool, handles, 1,
                            [closer EXCEPT !.atCall = Range(pool)])
       IN  /\ pool' = n.pool
           /\ handles' = n.handles
           /\ closer' = n.closer
    /\ UNCHANGED <<desiredSize, req, started, engine>>

\* The terminate() that destroy awaits is fulfilled: the iterator moves on
\*                                                        (lines 150..153)
DestroyTerminateDone ==
    /\ closer.pc = "terminating"
    /\ LET n == DestroyLoop(pool, handles, closer.i + 1, closer)
       IN  /\ pool' = n.pool
           /\ handles' = n.handles
           /\ closer' = n.closer
    /\ UNCHANGED <<desiredSize, req, started, engine>>

\* DestroyTerminateFail without the try/catch of line 151: the rejection
\* ends destroy where it is, and the close handler takes it (line 243).
DestroyTerminateFailStops ==
    /\ closer.pc = "terminating"
    /\ closer' = [closer EXCEPT !.pc = "closed", !.i = 0]
    /\ UNCHANGED <<pool, desiredSize, handles, req, started, engine>>

\* The terminate() that destroy awaits throws or is rejected: the empty
\* catch of line 151 takes the error, the iterator moves on
\*                                                        (lines 150..153)
DestroyTerminateFail ==
    /\ closer.pc = "terminating"
    /\ LET n == DestroyLoop(pool, handles, closer.i + 1,
                            [closer EXCEPT !.swallowed = TRUE])
       IN  /\ pool' = n.pool
           /\ handles' = n.handles
           /\ closer' = n.closer
    /\ UNCHANGED <<desiredSize, req, started, engine>>

\* The pool sizes of the messages of a node that is closed in the end:
\* every whole size of the range.
CloseSizes == {Num(2 * n) : n \in MinPoolSize..MaxPoolSize}

\* The node with its close event, its messages handled one at a time.  No
\* message is delivered once the node closes; the handler that is in flight
\* then goes on, interleaved with destroy.
NextClose ==
    \/ \E payload \in Payloads :
          closer.pc = "open" /\ Start(1, payload, NoRectangle)
    \/ \E lang \in Langs, size \in CloseSizes : NormalizeOk(1, lang, size)
    \/ Step(1)
    \/ Close
    \/ DestroyTerminateDone
    \/ DestroyTerminateFail

CloseSpec == Init /\ [][NextClose]_vars

\* ================================================================= claims
Created == 1..Len(handles)

\* The request has a handle marked busy for itself and has not released it:
\* from the scan that set the flag to the release (or the failure).
InFlightWith == {"loadLanguage", "initialize", "setParameters", "recognize"}
Holds(r, h) == req[r].pc \in InFlightWith /\ req[r].item = h

\* ---- C1 ----------------------------------------------------------------
\* C1: mutual exclusion.  At no time do two requests hold the same handle:
\* from the moment acquire marks a handle busy for a request until that
\* request releases it, no other request has it, and it stays marked busy.
C1_MutualExclusion ==
    \A r1 \in Reqs, r2 \in Reqs, h \in Created :
        /\ (Holds(r1, h) /\ Holds(r2, h)) => r1 = r2
        /\ Holds(r1, h) => handles[h].busy

\* More requests than handles: one recognises on the only handle of the
\* pool while the other waits in acquire.
C1_Witness ==
    \E r1 \in Reqs, r2 \in Reqs :
        /\ Len(pool) = 1
        /\ req[r1].pc = "recognize" /\ req[r1].item = pool[1]
        /\ req[r2].pc = "waiting"

\* ---- C2 ----------------------------------------------------------------
\* C2: a request that ended with the Timeout failure has left the handle it
\* had acquired idle.
C2_TimeoutLeavesIdle ==
    \A r \in Reqs :
        (req[r].pc = "failed" /\ req[r].err = "Timeout")
            => ~handles[req[r].item].busy

\* ---- C3 ----------------------------------------------------------------
\* C3: a request that had acquired a handle and then failed in parameter
\* application, in the recognition call or for want of a recognize entry
\* point has left that handle idle.
C3_FailureReleases ==
    \A r \in Reqs :
        (/\ req[r].pc = "failed"
         /\ req[r].err \in {"ParameterFailure", "EngineFailure",
                            "CapabilityMissing"})
            => ~handles[req[r].item].busy

\* ---- C4 ----------------------------------------------------------------
\* clamp(m, 1, 4) as the claim words it, in halves: below 1 or not a number
\* gives 1, above 4 gives 4, anything else gives m.
ClaimedClamp(size) ==
    IF size.k = "nan" THEN 2
    ELSE IF size.v < 2 THEN 2
    ELSE IF size.v > 8 THEN 8
    ELSE size.v

TerminatedIffRemoved ==
    \A h \in Created :
        handles[h].terminated = (IF h \in Range(pool) THEN 0 ELSE 1)

\* C5: the pool only ever loses its last element, one at a time; a handle
\* that is out of the pool has had terminate invoked exactly once, and a
\* handle that is in the pool never; under any interleaving of ensureSize
\* calls.
C5_ShrinkFromEnd ==
    /\ TerminatedIffRemoved
    /\ [][/\ TerminatedIffRemoved'
          /\ Len(pool') < Len(pool) => pool' = Front(pool)
          /\ \A h \in Created : handles'[h].terminated >= handles[h].terminated
         ]_vars

\* Two ensureSize calls are shrinking the pool at the same time: both await
\* a terminate, two handles are out of the pool and one is left.
C5_Witness ==
    /\ req[1].pc = "terminate"
    /\ req[2].pc = "terminate"
    /\ Len(pool) = 1
    /\ Len(handles) = 3


\* ---- C6 ----------------------------------------------------------------
\* C6: when a request takes a handle whose worker has loadLanguage and
\* initialize, loadLanguage is invoked if and only if the language recorded
\* on the handle differs from the one asked for (so never on a second
\* acquisition for the same language, always on the first and on a change
\* of language); and when initialize has succeeded the handle records the
\* language asked for.
C6_InitOnlyOnChange ==
    [][\A r \in Reqs :
        /\ (/\ req[r].item = 0
            /\ req'[r].item # 0
            /\ handles[req'[r].item].api.hasLangInit)
           => LET h == req'[r].item
              IN  IF handles[h].lang = req[r].lang
                  THEN /\ handles'[h].loads = handles[h].loads
                       /\ req'[r].pc # "loadLanguage"
                  ELSE /\ handles'[h].loads = handles[h].loads + 1
                       /\ req'[r].pc = "loadLanguage"
        /\ (req[r].pc = "initialize" /\ req'[r].pc \in {"setParameters", "recognize"})
           => handles'[req[r].item].lang = req[r].lang
      ]_vars

\* A handle has been acquired, released and acquired again for the language
\* it records, and loadLanguage has been invoked on it once.
C6_Witness ==
    \E r1 \in Reqs, r2 \in Reqs :
        LET h == req[r2].item
        IN  /\ r1 # r2
            /\ req[r1].pc = "done" /\ req[r1].item = h
            /\ req[r2].pc \in {"setParameters", "recognize"}
            /\ handles[h].api.hasLangInit
            /\ handles[h].lang = req[r2].lang
            /\ handles[h].loads = 1

\* ---- C7 ----------------------------------------------------------------
\* C7: on a working installation with a pool of one, no request loads or
\* initialises a language on a handle while another request holds that
\* handle, and every request that has started completes successfully.
C7_BothComplete ==
    /\ [](\A r1 \in Reqs, r2 \in Reqs :
            (/\ r1 # r2
             /\ req[r2].pc \in {"loadLanguage", "initialize"})
                => ~Holds(r1, req[r2].item))
    /\ \A r \in Reqs : (req[r].pc = "normalize") ~> (req[r].pc = "done")

\* The second request, which had to wait, is loading its own language on
\* the only handle, which the first request used for another language and
\* has released.
C7_Witness ==
    \E r1 \in Reqs, r2 \in Reqs :
        LET h == req[r2].item
        IN  /\ req[r1].pc = "done" /\ req[r1].item = h
            /\ req[r2].pc = "loadLanguage" /\ req[r2].path = "waiting"
            /\ pool = <<h>>
            /\ handles[h].lang \notin {Null, req[r2].lang}

\* ---- C8 ----------------------------------------------------------------
\* C8: once a request has timed out, a request that waits in acquire on the
\* same pool still gets a handle in the end.
C8_WaiterProceeds ==
    \A r1 \in Reqs, r2 \in Reqs :
        (req[r1].err = "Timeout" /\ req[r2].pc = "waiting")
            ~> (req[r2].pc # "waiting")

\* ---- C9 ----------------------------------------------------------------
\* C9: the step in which normalisation fails leaves the pool, the desired
\* size and every handle as they were, and the request ends without any
\* handle; a payload of no supported shape never gets past normalisation.
C9_NormalizeFailNoPool ==
    [][\A r \in Reqs :
        /\ (req[r].pc = "normalize" /\ req'[r].pc = "failed")
           => /\ pool' = pool
              /\ desiredSize' = desiredSize
              /\ handles' = handles
              /\ req'[r].item = 0
              /\ req'[r].err \in {"SourceUnavailable", "UnsupportedPayload"}
        /\ (req[r].pc = "normalize" /\ req[r].payload = "other")
           => req'[r].pc \in {"normalize", "failed"}
        /\ (req[r].pc = "normalize" /\ req'[r].pc \notin {"normalize", "failed"})
           => req[r].payload \in Payloads \ {"other"}
      ]_vars

\* A request has failed in normalisation while the other one recognises on
\* a handle of a pool of two: the pool is as that other request made it.
C9_Witness ==
    \E r1 \in Reqs, r2 \in Reqs :
        /\ req[r1].pc = "failed" /\ req[r1].err = "SourceUnavailable"
        /\ req[r1].item = 0
        /\ req[r2].pc = "recognize"
        /\ Len(pool) = 2 /\ desiredSize = 4
        /\ handles[pool[1]].busy /\ ~handles[pool[2]].busy

\* ---- C10 ---------------------------------------------------------------
\* C10: a request whose recognition has been invoked has no setParameters
\* call pending (it has returned, or the worker has none), and between its
\* setParameters and its recognition no other request is applying
\* parameters or recognising on the same handle.
C10_ParamsBeforeRecognize ==
    \A r \in Reqs :
        /\ req[r].pc = "recognize" => req[r].params \in {"applied", ""}
        /\ req[r].pc = "setParameters" => req[r].params = "called"
        /\ \A q \in Reqs :
               (/\ q # r
                /\ req[r].pc \in {"setParameters", "recognize"}
                /\ req[q].pc \in {"setParameters", "recognize"})
                   => req[q].item # req[r].item

\* One request recognises with its parameters applied while the other is
\* still applying its own on the second handle.
C10_Witness ==
    \E r \in Reqs, q \in Reqs :
        /\ req[r].pc = "recognize" /\ req[r].params = "applied"
        /\ req[q].pc = "setParameters"
        /\ req[q].item # req[r].item

\* ---- C11 ---------------------------------------------------------------
\* C11: in the step that completes destroy the pool becomes empty, and by
\* then terminate has been invoked on every handle the pool held when
\* destroy was called, whether or not a terminate has failed on the way;
\* a failed terminate never ends destroy early: the loop either awaits the
\* next handle or empties the pool.
C11_DestroyTerminatesAll ==
    [][/\ (closer.pc # "closed" /\ closer'.pc = "closed")
          => /\ pool' = <<>>
             /\ \A h \in closer'.atCall : handles'[h].terminated >= 1
       /\ (closer.pc = "terminating" /\ closer'.swallowed /\ closer' # closer)
          => \/ closer'.pc = "terminating" /\ closer'.i = closer.i + 1
             \/ closer'.pc = "closed" /\ pool' = <<>>
      ]_vars

\* destroy has completed on a pool of three handles: a terminate has thrown
\* on the way, every one of the three has had terminate invoked once, and
\* the pool is empty.
C11_Witness ==
    /\ closer.pc = "closed"
    /\ closer.swallowed
    /\ Cardinality(closer.atCall) = 3
    /\ \A h \in closer.atCall : handles[h].terminated = 1
    /\ pool = <<>>

\* ---- C12 ---------------------------------------------------------------
\* C12: handlers running one at a time, a terminate that fails during a
\* shrink never fails the request: from the await of a terminate the call
\* goes on to the next terminate or returns, no request ever ends with a
\* termination error, and when an ensureSize that has swallowed such an
\* error returns, the pool holds the clamped target size (its whole part
\* when cfg.poolSize is a fraction, see C4).
C12_TerminateFailureSwallowed ==
    /\ [](/\ req[1].err # "TerminateFailure"
          /\ (req[1].pc = "ensured" /\ req[1].swallowed)
             => /\ Len(pool) = desiredSize \div 2
                /\ desiredSize = Clamp(req[1].size))
    /\ [][req[1].pc = "terminate"
             => req'[1].pc \in {"terminate", "ensured"}]_vars

\* ensureSize(1) has returned on a pool that held four handles: three were
\* popped, a terminate was rejected on the way, one handle is left.
C12_Witness ==
    /\ req[1].pc = "ensured"
    /\ req[1].swallowed
    /\ req[1].size = Num(2)
    /\ Len(handles) = 4
    /\ Len(pool) = 1
    /\ \A h \in 2..4 : handles[h].terminated = 1

\* ---- C13 ---------------------------------------------------------------
\* C13: in the step in which an ensureSize call returns, the pool is not
\* empty and holds exactly desiredSize handles, however the calls of the
\* requests in flight interleave.
C13_SizeAtCompletion ==
    [][\A r \in Reqs :
        (req[r].pc # "ensured" /\ req'[r].pc = "ensured")
            => /\ 0 < Len(pool')
               /\ 2 * Len(pool') = desiredSize'
      ]_vars

\* ---- C14 ---------------------------------------------------------------
\* C14: in every reachable state the pool holds no more handles than the
\* clamped size that is configured (desiredSize), so no handle is created
\* beyond that size: createOne delivers a handle only to a pool that has
\* room for it; and no step of acquire creates a handle.
C14_NeverBeyondSize ==
    /\ [](2 * Len(pool) <= desiredSize)
    /\ [][/\ Len(handles') > Len(handles)
              => 2 * (Len(pool) + 1) <= desiredSize
           /\ \A r \in Reqs :
                  (req[r].pc \in {"ensured", "waiting"} /\ req'[r] # req[r])
                      => Len(handles') = Len(handles)
          ]_vars

\* ---- C15 ---------------------------------------------------------------
\* C15: a request that ended because loadLanguage or initialize failed
\* inside acquire has left the handle it had marked busy idle, on the
\* immediate path and on the waiting path alike.
C15_InitFailureLeavesIdle ==
    \A r \in Reqs :
        (req[r].pc = "failed" /\ req[r].err = "LanguageFailure")
            => ~handles[req[r].item].busy

\* ---- C16 ---------------------------------------------------------------
\* C16 as stated: in every reachable state the language recorded on a
\* handle is the language of the last initialize that succeeded on its
\* worker, null when none ever did.
C16_RecordedIsInitialized ==
    \A h \in Created : handles[h].lang = handles[h].initialized

\* C16 as amended: the same for every handle whose worker has loadLanguage
\* and initialize; and the step in which loadLanguage or initialize fails
\* leaves the language recorded on any handle as it was.
C16_RecordedIsInitializedIfCapable ==
    /\ [](\A h \in Created :
            handles[h].api.hasLangInit
                => handles[h].lang = handles[h].initialized)
    /\ [][\A r \in Reqs :
            (/\ req[r].pc \in {"loadLanguage", "initialize"}
             /\ req'[r].err = "LanguageFailure")
                => \A h \in Created : handles'[h].lang = handles[h].lang
          ]_vars

\* A request has failed to switch a handle to its language: the handle had
\* been initialised for another language before, and still records that
\* one.
C16_Witness ==
    \E r \in Reqs :
        LET h == req[r].item
        IN  /\ req[r].pc = "failed" /\ req[r].err = "LanguageFailure"
            /\ handles[h].loads = 2
            /\ handles[h].lang # Null
            /\ handles[h].lang = handles[h].initialized

\* ---- C17 ---------------------------------------------------------------
\* C17: on a handle whose worker lacks loadLanguage or initialize, the
\* language once recorded never changes; the first acquisition records the
\* language it asks for; no acquisition invokes loadLanguage or ends with a
\* language error, whatever language it asks for.
C17_FixedWithoutCapability ==
    [][\A h \in Created :
        ~handles[h].api.hasLangInit
            => /\ handles[h].lang # Null => handles'[h].lang = handles[h].lang
               /\ handles'[h].loads = 0
               /\ \A r \in Reqs :
                      (req[r].item = 0 /\ req'[r].item = h)
                          => /\ handles[h].lang = Null
                                => handles'[h].lang = req[r].lang
                             /\ req'[r].pc \notin {"loadLanguage", "initialize"}
                             /\ req'[r].err # "LanguageFailure"
      ]_vars

\* A request asking for one language recognises on a handle that cannot
\* switch and records the other language, from its first acquisition.
C17_Witness ==
    \E r \in Reqs :
        LET h == req[r].item
        IN  /\ req[r].pc = "recognize"
            /\ ~handles[h].api.hasLangInit
            /\ handles[h].lang \notin {Null, req[r].lang}
            /\ handles[h].loads = 0

\* ---- C18 ---------------------------------------------------------------
\* C18: a handle that a request in flight holds is in the pool, and
\* terminate has never been invoked on it.
C18_HeldStaysInPool ==
    \A r \in Reqs, h \in Created :
        Holds(r, h) => (h \in Range(pool) /\ handles[h].terminated = 0)

\* ---- C19 ---------------------------------------------------------------
\* Some handle of the pool is idle.
IdleInPool == \E i \in 1..Len(pool) : ~handles[pool[i]].busy

\* C19: a request that waits in acquire holds no handle, so the others go
\* on; and whenever a request waits while a handle of the pool is idle,
\* then in the end the request has stopped waiting or no handle is idle
\* any more: a handle that is released and stays idle is taken by a waiting
\* request, the timer callbacks being run fairly.
C19_WaiterTakesIdle ==
    /\ [](\A r \in Reqs : req[r].pc = "waiting" => req[r].item = 0)
    /\ \A r \in Reqs :
           (req[r].pc = "waiting" /\ IdleInPool)
               ~> (req[r].pc # "waiting" \/ ~IdleInPool)

\* A request waits in acquire, and the only handle of the pool has just
\* been released by the request that held it.
C19_Witness ==
    \E r \in Reqs, q \in Reqs :
        /\ req[r].pc = "waiting"
        /\ req[q].pc = "done"
        /\ pool = <<req[q].item>>
        /\ ~handles[req[q].item].busy

\* ---- C20 ---------------------------------------------------------------
\* The rectangle of the request has its four fields present as integers.
WellFormed(rect) ==
    /\ rect.k = "object"
    /\ \A f \in RectFields : rect[f] \in {Num(0), Num(4)}

\* C20: while a request recognises, its options carry a rectangle if and
\* only if the rectangle of the request has all four fields present as
\* integers, and then the four fields are those of the request; with any
\* other rectangle the options are empty (the whole image).  No request
\* ends with an error about its configuration.
C20_RectangleIffWellFormed ==
    /\ req[1].pc = "recognize"
       => /\ req[1].options.k = "rectangle" <=> WellFormed(req[1].rect)
          /\ req[1].options.k = "rectangle"
             => \A f \in RectFields : req[1].options[f] = req[1].rect[f]
          /\ ~WellFormed(req[1].rect) => req[1].options = [k |-> "empty"]
    /\ req[1].err \in {"", "UnsupportedPayload", "SourceUnavailable",
                       "CreateFailure", "LanguageFailure", "ParameterFailure",
                       "CapabilityMissing", "EngineFailure", "Timeout"}

\* A request whose rectangle has a width of 1.5 recognises with empty
\* options.
C20_Witness ==
    /\ req[1].pc = "recognize"
    /\ req[1].rect = [k |-> "object", left |-> Num(0), top |-> Num(4),
                      width |-> Num(3), height |-> Num(4)]
    /\ req[1].options = [k |-> "empty"]

=============================================================================
